---- MODULE Spec2Model ----
(***************************************************************************)
(* git-lean: the commit-graph webview.  The lane allocator                 *)
(* (calculateLanes), the per-row edge routing of drawGraph / GraphCanvas,  *)
(* and the row selection handlers of the webview script.                   *)
(*                                                                         *)
(* Rows are numbered from 1 here: row r of the model is index r-1 of the   *)
(* commits array in the source.  A hash is a natural number; the commit    *)
(* lists fed to the model have unique hashes, as `git log` produces them.  *)
(***************************************************************************)
EXTENDS Integers, Sequences, FiniteSets, TLC

\* ------------------------------------------------------------------ bounds
\* Longest commit list in topological order (parents below their children).
MaxCommits == 4
\* Longest commit list with arbitrary parent references (self, backwards).
MaxAnyCommits == 2
\* Most parents of one commit.
MaxParents == 2
\* Longest commit list of a rendered table (drawing passes, selection).
MaxRows == 3
\* Most drawGraph passes over one list.
MaxRuns == 2
\* The repository is changed at most this many times from outside.
MaxChanges == 1
\* Refreshes asked for by the user (refresh message, branch filter).
MaxRefreshRequests == 1
\* Mutating actions the host is asked to run.
MaxActions == 1
\* git log reads started in one run of the host.
MaxReads == 3

\* ----------------------------------------------------------------- helpers
Range(s) == {s[k] : k \in DOMAIN s}

\* The second argument taken whatever the first is (x = b for x = Math.max(a, b)).
TakeSecond(a, b) == b

Max(a, b) == IF a >= b THEN a ELSE b

Min(a, b) == IF a <= b THEN a ELSE b

\* JavaScript's undefined, the result of Map.get on a missing key.
Undefined == -1

\* JavaScript's -Infinity, below every width a canvas can have.
MinusInfinity == -1000000

\* Map.has / Map.get / Map.set / Map.delete on a Map held as a function.
MapHas(m, k) == k \in DOMAIN m

MapGet(m, k) == IF k \in DOMAIN m THEN m[k] ELSE Undefined

MapSet(m, k, v) == [x \in DOMAIN m \cup {k} |-> IF x = k THEN v ELSE m[x]]

MapDelete(m, k) == [x \in DOMAIN m \ {k} |-> m[x]]

EmptyMap == <<>>

\* ------------------------------------------------------------ commit lists
\* Sequences over U without repetition, of length at most k.
RECURSIVE SeqsNoDup(_, _)
SeqsNoDup(U, k) ==
    IF k = 0 THEN {<<>>}
    ELSE LET S == SeqsNoDup(U, k - 1)
         IN  S \cup UNION {{Append(s, u) : u \in U \ Range(s)} :
                              s \in {t \in S : Len(t) = k - 1}}

\* GitCommit (types.ts): the fields the layout and the selection read.
Commit(h, ps, rs) == [hash |-> h, parents |-> ps, refs |-> rs]

\* A ref is a sequence of tokens: 'HEAD -> main' is <<"HEAD", " -> ", "main">>.
RefHeadAt(branch) == <<"HEAD", " -> ", branch>>

RefDetachedHead == <<"HEAD">>

RefBranch(branch) == <<branch>>

\* spec.md section 8, the end-to-end scenario: C1..C5 are hashes 1..5.
ScenarioList ==
    << Commit(1, <<2>>, <<>>), Commit(2, <<3, 4>>, <<>>), Commit(3, <<5>>, <<>>),
       Commit(4, <<5>>, <<>>), Commit(5, <<>>, <<>>) >>

\* commits.findIndex(c => c.hash === h): the first row with that hash, -1 if none.
RECURSIVE FindIndexFrom(_, _, _)
FindIndexFrom(cs, h, r) ==
    IF r > Len(cs) THEN -1
    ELSE IF cs[r].hash = h THEN r
    ELSE FindIndexFrom(cs, h, r + 1)

\* A lookup that answers the row past the end for a hash that is not in the list.
FindIndexPastEnd(cs, h) ==
    IF FindIndexFrom(cs, h, 1) = -1 THEN Len(cs) + 1 ELSE FindIndexFrom(cs, h, 1)

FindIndex(cs, h) == FindIndexFrom(cs, h, 1)

HashesOf(cs) == {cs[r].hash : r \in 1..Len(cs)}

\* The topological invariant of spec.md section 3: every parent that is in the
\* list is at a strictly greater row than its child.
Topological(cs) ==
    \A r \in 1..Len(cs) : \A k \in 1..Len(cs[r].parents) :
        LET pr == FindIndex(cs, cs[r].parents[k]) IN pr = -1 \/ pr > r

\* ----------------------------------------------------------- calculateLanes
\* A scan that takes lane 0 whether or not it is reserved.
ScanNoSkip(usedLanes, newLane) == newLane

\* A scan that steps over one reserved lane only (if for while).
ScanSkipOnce(usedLanes, newLane) ==
    IF newLane \in usedLanes THEN newLane + 1 ELSE newLane

\* A scan that takes the lane above every reserved lane.
ScanAboveAll(usedLanes, newLane) ==
    IF usedLanes = {} THEN newLane
    ELSE (CHOOSE l \in usedLanes : \A m \in usedLanes : m <= l) + 1

\* while (usedLanes.has(newLane)) { newLane++; }
RECURSIVE ScanFreeLane(_, _)
ScanFreeLane(usedLanes, newLane) ==
    IF newLane \in usedLanes THEN ScanFreeLane(usedLanes, newLane + 1) ELSE newLane

\* The additional parents always given a lane never used before.
RECURSIVE AdditionalParentsFresh(_, _, _)
AdditionalParentsFresh(st, parents, j) ==
    IF j > Len(parents) THEN st
    ELSE LET parent == parents[j] IN
         IF ~MapHas(st.reservedLanes, parent)
         THEN LET usedLanes == Range(st.reservedLanes)
                  newLane == ScanFreeLane(usedLanes, st.nextLane)
              IN  AdditionalParentsFresh(
                      [reservedLanes |-> MapSet(st.reservedLanes, parent, newLane),
                       nextLane |-> Max(st.nextLane, newLane + 1),
                       scans |-> Append(st.scans,
                                   [parent |-> parent, lane |-> newLane,
                                    pending |-> Cardinality(DOMAIN st.reservedLanes),
                                    used |-> usedLanes, next |-> st.nextLane])],
                      parents, j + 1)
         ELSE AdditionalParentsFresh(st, parents, j + 1)

\* Additional parents reserved without raising nextLane.
RECURSIVE AdditionalParentsNoBump(_, _, _)
AdditionalParentsNoBump(st, parents, j) ==
    IF j > Len(parents) THEN st
    ELSE LET parent == parents[j] IN
         IF ~MapHas(st.reservedLanes, parent)
         THEN LET usedLanes == Range(st.reservedLanes)
                  newLane == ScanFreeLane(usedLanes, 0)
              IN  AdditionalParentsNoBump(
                      [reservedLanes |-> MapSet(st.reservedLanes, parent, newLane),
                       nextLane |-> st.nextLane,
                       scans |-> Append(st.scans,
                                   [parent |-> parent, lane |-> newLane,
                                    pending |-> Cardinality(DOMAIN st.reservedLanes),
                                    used |-> usedLanes, next |-> st.nextLane])],
                      parents, j + 1)
         ELSE AdditionalParentsNoBump(st, parents, j + 1)

\* The loop over the additional parents, j = 2..Len(parents) here.  st holds
\* reservedLanes, nextLane and scans, the record of the scans made so far in
\* this iteration: parent, lane found, reservations pending when it started,
\* usedLanes and nextLane at that moment.
RECURSIVE AdditionalParents(_, _, _)
AdditionalParents(st, parents, j) ==
    IF j > Len(parents) THEN st
    ELSE LET parent == parents[j] IN
         IF ~MapHas(st.reservedLanes, parent)
         THEN LET usedLanes == Range(st.reservedLanes)
                  newLane == ScanFreeLane(usedLanes, 0)
              IN  AdditionalParents(
                      [reservedLanes |-> MapSet(st.reservedLanes, parent, newLane),
                       nextLane |-> Max(st.nextLane, newLane + 1),
                       scans |-> Append(st.scans,
                                   [parent |-> parent, lane |-> newLane,
                                    pending |-> Cardinality(DOMAIN st.reservedLanes),
                                    used |-> usedLanes, next |-> st.nextLane])],
                      parents, j + 1)
         ELSE AdditionalParents(st, parents, j + 1)

\* A first parent that takes the commit's lane even when it holds a reservation.
ReserveFirstParentOverwrite(reserved, firstParent, assignedLane) ==
    MapSet(reserved, firstParent, assignedLane)

\* A first parent that is never reserved.
ReserveFirstParentNever(reserved, firstParent, assignedLane) == reserved

\* if (!reservedLanes.has(firstParent)) { reservedLanes.set(firstParent, assignedLane); }
ReserveFirstParent(reserved, firstParent, assignedLane) ==
    IF ~MapHas(reserved, firstParent)
    THEN MapSet(reserved, firstParent, assignedLane)
    ELSE reserved

\* An iteration that takes the reserved lane and leaves the reservation in
\* the map (no reservedLanes.delete).
LaneIterationKeepsClaim(st, commit) ==
    LET reserved == MapHas(st.reservedLanes, commit.hash)
        assignedLane == IF reserved THEN MapGet(st.reservedLanes, commit.hash)
                        ELSE st.nextLane
        next1 == IF reserved THEN st.nextLane ELSE st.nextLane + 1
        lanes1 == MapSet(st.commitLanes, commit.hash, assignedLane)
    IN  IF Len(commit.parents) > 0
        THEN LET res2 == ReserveFirstParent(st.reservedLanes, commit.parents[1], assignedLane)
                 fin == AdditionalParents(
                            [reservedLanes |-> res2, nextLane |-> next1, scans |-> <<>>],
                            commit.parents, 2)
             IN  [commitLanes |-> lanes1, reservedLanes |-> fin.reservedLanes,
                  nextLane |-> fin.nextLane, scans |-> fin.scans]
        ELSE [commitLanes |-> lanes1, reservedLanes |-> st.reservedLanes,
              nextLane |-> next1, scans |-> <<>>]

\* One iteration of the for loop over commits.  st holds commitLanes,
\* reservedLanes and nextLane.
LaneIteration(st, commit) ==
    LET reserved == MapHas(st.reservedLanes, commit.hash)
        assignedLane == IF reserved THEN MapGet(st.reservedLanes, commit.hash)
                        ELSE st.nextLane
        res1 == IF reserved THEN MapDelete(st.reservedLanes, commit.hash)
                ELSE st.reservedLanes
        next1 == IF reserved THEN st.nextLane ELSE st.nextLane + 1
        lanes1 == MapSet(st.commitLanes, commit.hash, assignedLane)
    IN  IF Len(commit.parents) > 0
        THEN LET firstParent == commit.parents[1]
                 res2 == ReserveFirstParent(res1, firstParent, assignedLane)
                 fin == AdditionalParents(
                            [reservedLanes |-> res2, nextLane |-> next1, scans |-> <<>>],
                            commit.parents, 2)
             IN  [commitLanes |-> lanes1, reservedLanes |-> fin.reservedLanes,
                  nextLane |-> fin.nextLane, scans |-> fin.scans]
        ELSE [commitLanes |-> lanes1, reservedLanes |-> res1,
              nextLane |-> next1, scans |-> <<>>]

\* A nextLane counter kept with the instance: it starts where the lanes of
\* the previous pass ended.
InitialLaneStateKept(lanes0) ==
    [commitLanes |-> lanes0, reservedLanes |-> EmptyMap,
     nextLane |-> Cardinality(Range(lanes0)), scans |-> <<>>]

\* The state calculateLanes starts its loop in.  lanes0 is the content of
\* commitLanes at that moment: empty for the function of the React webview,
\* this.commitLanes (made by the constructor, never cleared) for GraphRenderer.
InitialLaneState(lanes0) ==
    [commitLanes |-> lanes0, reservedLanes |-> EmptyMap, nextLane |-> 0, scans |-> <<>>]

\* The loop from row r to the end of the list.
RECURSIVE LaneLoop(_, _, _)
LaneLoop(st, cs, r) ==
    IF r > Len(cs) THEN st ELSE LaneLoop(LaneIteration(st, cs[r]), cs, r + 1)

\* calculateLanes(commits): the lane map returned (left in this.commitLanes).
CalculateLanes(cs, lanes0) == LaneLoop(InitialLaneState(lanes0), cs, 1).commitLanes

\* ------------------------------------------------- drawGraph / GraphCanvas
\* COLORS.length
PaletteSize == 10

LANE_WIDTH == 18

\* COLORS[lane % COLORS.length], as the palette index.
Color(lane) == lane % PaletteSize

\* One stroke or marker put on a row's canvas.  kind: "passthrough", "upper",
\* "lower", "incoming", "outgoing", "ring", "disc"; from/to: the lanes of its
\* two ends, top to bottom.
Stroke(kind, from, to, color) == [kind |-> kind, from |-> from, to |-> to, color |-> color]

\* r.startsWith('HEAD -> ') || r === 'HEAD'
\* A test that only knows the ref of a checked-out branch.
IsHeadRefBranchOnly(ref) == Len(ref) >= 2 /\ ref[1] = "HEAD" /\ ref[2] = " -> "

IsHeadRef(ref) ==
    \/ ref = <<"HEAD">>
    \/ Len(ref) >= 2 /\ ref[1] = "HEAD" /\ ref[2] = " -> "

\* (commits.find(c => c.refs.some(...)) || commits[0])?.hash
HeadCommitHash(cs) ==
    LET marked == {r \in 1..Len(cs) : \E k \in 1..Len(cs[r].refs) : IsHeadRef(cs[r].refs[k])}
    IN  IF marked # {} THEN cs[CHOOSE r \in marked : \A q \in marked : r <= q].hash
        ELSE IF Len(cs) > 0 THEN cs[1].hash
        ELSE Undefined

\* Passthrough lines drawn in the lane of the child the edge comes from.
PassthroughsInChildLane(cs, lanes, index) ==
    LET lane == MapGet(lanes, cs[index].hash)
    IN  UNION {{Stroke("passthrough", MapGet(lanes, cs[r].hash),
                       MapGet(lanes, cs[r].hash),
                       Color(MapGet(lanes, cs[r].hash))) :
                   k \in {j \in 1..Len(cs[r].parents) :
                       /\ FindIndex(cs, cs[r].parents[j]) > index
                       /\ MapGet(lanes, cs[r].hash) # lane}} :
               r \in 1..(index - 1)}

\* 1. Passthrough lines for lanes active at this row.
Passthroughs(cs, lanes, index) ==
    LET lane == MapGet(lanes, cs[index].hash)
    IN  UNION {{Stroke("passthrough", MapGet(lanes, cs[r].parents[k]),
                       MapGet(lanes, cs[r].parents[k]),
                       Color(MapGet(lanes, cs[r].parents[k]))) :
                   k \in {j \in 1..Len(cs[r].parents) :
                       /\ FindIndex(cs, cs[r].parents[j]) > index
                       /\ MapGet(lanes, cs[r].parents[j]) # Undefined
                       /\ MapGet(lanes, cs[r].parents[j]) # lane}} :
               r \in 1..(index - 1)}

HasIncoming(cs, index) ==
    index > 1 /\ \E r \in 1..(index - 1) : cs[index].hash \in Range(cs[r].parents)

\* A test that is satisfied by any parent, in the list or not.
HasOutgoingAnyParent(cs, index) == Len(cs[index].parents) > 0

HasOutgoing(cs, index) ==
    \E k \in 1..Len(cs[index].parents) : FindIndex(cs, cs[index].parents[k]) > index

\* 2. This commit's lane line.
LaneLine(cs, lanes, index) ==
    LET lane == MapGet(lanes, cs[index].hash)
    IN  (IF HasIncoming(cs, index) THEN {Stroke("upper", lane, lane, Color(lane))} ELSE {})
        \cup
        (IF HasOutgoing(cs, index) THEN {Stroke("lower", lane, lane, Color(lane))} ELSE {})

\* 3. Merge/branch connections: from the children above, to the parents below.
IncomingConnectors(cs, lanes, index) ==
    LET lane == MapGet(lanes, cs[index].hash)
    IN  {Stroke("incoming", MapGet(lanes, cs[r].hash), lane, Color(lane)) :
            r \in {q \in 1..(index - 1) :
                /\ cs[index].hash \in Range(cs[q].parents)
                /\ MapGet(lanes, cs[q].hash) # lane}}

OutgoingConnectors(cs, lanes, index) ==
    LET lane == MapGet(lanes, cs[index].hash)
    IN  {Stroke("outgoing", lane, MapGet(lanes, cs[index].parents[k]), Color(lane)) :
            k \in {j \in 1..Len(cs[index].parents) :
                /\ FindIndex(cs, cs[index].parents[j]) > index
                /\ MapGet(lanes, cs[index].parents[j]) # Undefined
                /\ MapGet(lanes, cs[index].parents[j]) # lane}}

\* 4. Commit dot: the hollow ring for HEAD, the filled disc otherwise.
Marker(cs, lanes, index, head) ==
    LET lane == MapGet(lanes, cs[index].hash)
    IN  {Stroke(IF cs[index].hash = head THEN "ring" ELSE "disc", lane, lane, Color(lane))}

\* Everything drawn on the canvas of one row.
DrawRow(cs, lanes, index, head) ==
    Passthroughs(cs, lanes, index) \cup LaneLine(cs, lanes, index)
        \cup IncomingConnectors(cs, lanes, index) \cup OutgoingConnectors(cs, lanes, index)
        \cup Marker(cs, lanes, index, head)

\* The canvases after drawGraph: setting canvas.width clears a canvas, so each
\* holds what this pass drew.  One canvas per row of the table.
DrawAll(cs, lanes) == [r \in 1..Len(cs) |-> DrawRow(cs, lanes, r, HeadCommitHash(cs))]

\* maxLane * LANE_WIDTH + 12, maxLane = Math.max(...commitLanes.values()) + 1.
\* Math.max() of no argument is -Infinity, and so is the width then.
CanvasWidth(lanes) ==
    IF Range(lanes) = {} THEN MinusInfinity
    ELSE LET maxLane == (CHOOSE m \in Range(lanes) : \A l \in Range(lanes) : l <= m) + 1
         IN  maxLane * LANE_WIDTH + 12

\* ------------------------------------------------------ selection helpers
\* null, for rangeStartIndex, selectedRow and selectedCommitHash: rows and
\* hashes are numbered from 1.
Null == 0

\* A sort with the comparator turned round: (a, b) => b - a.
RECURSIVE SortDescending(_)
SortDescending(S) ==
    IF S = {} THEN <<>>
    ELSE LET m == CHOOSE x \in S : \A y \in S : x >= y
         IN  <<m>> \o SortDescending(S \ {m})

\* Array.from(set).sort((a, b) => a - b)
RECURSIVE SortAscending(_)
SortAscending(S) ==
    IF S = {} THEN <<>>
    ELSE LET m == CHOOSE x \in S : \A y \in S : x <= y
         IN  <<m>> \o SortAscending(S \ {m})

\* parents.includes(hash): the scan of the array from its first element.
RECURSIVE Includes(_, _, _)
Includes(parents, hash, j) ==
    IF j > Len(parents) THEN FALSE
    ELSE IF parents[j] = hash THEN TRUE
    ELSE Includes(parents, hash, j + 1)

\* The loop of areCommitsConsecutive from its k-th pair on (k = i + 1):
\* for (let i = 0; i < sortedIndices.length - 1; i++) { ... return false; }
\* return true;
RECURSIVE AreCommitsConsecutiveFrom(_, _, _)
AreCommitsConsecutiveFrom(cs, sortedIndices, k) ==
    IF ~(k - 1 < Len(sortedIndices) - 1) THEN TRUE
    ELSE LET newer == cs[sortedIndices[k]]
             older == cs[sortedIndices[k + 1]]
         IN  IF Len(newer.parents) # 1 \/ ~Includes(newer.parents, older.hash, 1)
             THEN FALSE
             ELSE AreCommitsConsecutiveFrom(cs, sortedIndices, k + 1)

\* A predicate that only asks each commit to name the next one among its
\* parents, however many parents it has.
AreCommitsConsecutiveAnyParent(cs, sortedIndices) ==
    \A k \in 1..(Len(sortedIndices) - 1) :
        Includes(cs[sortedIndices[k]].parents, cs[sortedIndices[k + 1]].hash, 1)

\* areCommitsConsecutive(commits, sortedIndices)
AreCommitsConsecutive(cs, sortedIndices) == AreCommitsConsecutiveFrom(cs, sortedIndices, 1)

\* A message handed to vscode.postMessage; NoMessage when a step posts none.
Message(command, commitHash, hashes, parentHash, newMessage) ==
    [command |-> command, commitHash |-> commitHash, hashes |-> hashes,
     parentHash |-> parentHash, newMessage |-> newMessage]

NoMessage == Message("none", Null, <<>>, Undefined, "")

\* The data-action values of the two menus.
SingleActions ==
    {"showCommitDetails", "copyHash", "cherryPick", "revertCommit",
     "editCommitMessage", "resetToCommit"}

RangeActions == {"squashCommits", "cherryPickRange"}

\* What the user may leave in the inline message input: nothing, the
\* original text, another text.
TypedMessages == {"", "original", "changed"}

\* An input event: its kind, the row it is on (or null), the shift key, and
\* the number of rows that were selected when it arrived.
Event(type, row, shift, prior) ==
    [type |-> type, row |-> row, shift |-> shift, prior |-> prior]

\* ------------------------------------------------------------------- state
VARIABLES
    commits,            \* the commit list handed to the webview (const commits)
    pc,                 \* "lanes"/"done": calculateLanes; "render": a renderer at
                        \* rest; "script"/"ready": the webview script;
                        \* "predicate"/"returned": areCommitsConsecutive
    i,                  \* the row of calculateLanes's loop, 1..Len(commits)+1
    commitLanes,        \* Map hash -> lane (this.commitLanes)
    reservedLanes,      \* Map hash -> lane, the pending reservations
    nextLane,           \* the next never-used lane
    scans,              \* the free-lane scans of the last loop iteration
    canvases,           \* row -> the strokes on its canvas
    canvasWidth,        \* the width given to every canvas
    runs,               \* drawGraph passes made so far
    firstLanes,         \* the lane map after the first pass
    firstCanvases,      \* the canvases and their width after the first pass
    handlers,           \* the selection and menu listeners are installed
    rangeStartIndex,    \* the anchor row, or null
    selectedIndices,    \* the selected rows
    selectedCommitHash, \* the hash the single-commit menu acts on, or null
    selectedRow,        \* its row, or null
    contextMenu,        \* the single-commit menu is displayed
    rangeContextMenu,   \* the range menu is displayed
    squashItem,         \* the range menu's squash item is displayed
    editing,            \* the row whose message input is open, or null
    lastEvent,          \* the input event of the last step
    lastPost,           \* the message posted by the last step
    callIndices,        \* the sortedIndices of the last direct call of areCommitsConsecutive
    callResult,         \* what that call returned
    repo,               \* the state of the repository: the commit list git log would print
    gitChanged,         \* .git has changed and the watcher has not fired yet
    reads,              \* the git log reads of updateWebview, in the order they started
    html,               \* webview.html: the list it was made from and the read that made it
    hostPc,             \* where the mutating action of the host stands
    hostCommand,        \* the command of the message being served
    commands,           \* the git commands this action has run
    scripts,            \* the two editor scripts exist in the temporary directory
    rebasing,           \* a rebase is in progress in the repository
    abortPending,       \* git rebase --abort was started and has not finished
    outcome,            \* what this action has shown and whether it called refresh
    failedAt,           \* the number of reads started when an action last failed
    counts              \* user requests so far: refreshes, actions, outside changes

laneVars == <<i, commitLanes, reservedLanes, nextLane, scans>>

drawVars == <<canvases, canvasWidth, runs, firstLanes, firstCanvases>>

uiVars == <<handlers, rangeStartIndex, selectedIndices, selectedCommitHash, selectedRow,
            contextMenu, rangeContextMenu, squashItem, editing, lastEvent, lastPost>>

callVars == <<callIndices, callResult>>

hostVars == <<repo, gitChanged, reads, html, hostPc, hostCommand, commands, scripts,
              rebasing, abortPending, outcome, failedAt, counts>>

vars == <<commits, pc, laneVars, drawVars, uiVars, callVars, hostVars>>

\* The commit lists given to the model: rows r..n of a list of n commits are
\* appended to acc.  Row r has hash r, and n+1 is a hash that is not in the
\* list.  topo: parents are taken from the rows below only.  heads: the rows
\* that may carry the ref 'HEAD -> main' (row 0: no commit carries it).
RECURSIVE ChooseRows(_, _, _, _, _)
ChooseRows(r, n, topo, heads, acc) ==
    IF r > n
    THEN \E h \in heads \cap (0..n) :
             commits = [q \in 1..n |->
                          IF q = h THEN Commit(acc[q].hash, acc[q].parents,
                                               <<RefHeadAt("main"), RefBranch("origin/main")>>)
                          ELSE acc[q]]
    ELSE LET U == IF topo THEN (r + 1)..(n + 1) ELSE 1..(n + 1)
         IN  \E ps \in SeqsNoDup(U, MaxParents) :
                 ChooseRows(r + 1, n, topo, heads, Append(acc, Commit(r, ps, <<>>)))

\* Before the renderer exists: no canvas is drawn, nothing is selected.
DrawAtRest ==
    /\ canvases = <<>>
    /\ canvasWidth = 0
    /\ runs = 0
    /\ firstLanes = EmptyMap
    /\ firstCanvases = <<>>

\* let selectedCommitHash = null; ... let selectedIndices = new Set();
UIAtRest ==
    /\ handlers = FALSE
    /\ rangeStartIndex = Null
    /\ selectedIndices = {}
    /\ selectedCommitHash = Null
    /\ selectedRow = Null
    /\ contextMenu = FALSE
    /\ rangeContextMenu = FALSE
    /\ squashItem = TRUE
    /\ editing = Null
    /\ lastEvent = Event("none", Null, FALSE, 0)
    /\ lastPost = NoMessage

\* The list of a failed read: getGitLog resolves [] on a git error.
EmptyList == 0

\* No html has been set yet.
NoHtml == [list |-> Undefined, by |-> 0]

\* What an action has done so far: nothing.
NoOutcome == [result |-> "none", error |-> FALSE, info |-> FALSE, refresh |-> FALSE]

\* The extension host before the view is resolved.
HostAtRest ==
    /\ repo = 1
    /\ gitChanged = FALSE
    /\ reads = <<>>
    /\ html = NoHtml
    /\ hostPc = "idle"
    /\ hostCommand = "none"
    /\ commands = <<>>
    /\ scripts = FALSE
    /\ rebasing = FALSE
    /\ abortPending = FALSE
    /\ outcome = NoOutcome
    /\ failedAt = Undefined
    /\ counts = [refreshes |-> 0, actions |-> 0, changes |-> 0]

\* areCommitsConsecutive has not been called yet.
CallAtRest ==
    /\ callIndices = <<>>
    /\ callResult = FALSE

\* ---------------------------------------------- calculateLanes, step by step
\* calculateLanes up to its loop, on the lists of the model and the scenario
\* of spec.md section 8.
Init ==
    /\ \/ \E n \in 0..MaxCommits : ChooseRows(1, n, TRUE, {0}, <<>>)
       \/ \E n \in 0..MaxAnyCommits : ChooseRows(1, n, FALSE, {0}, <<>>)
       \/ commits = ScenarioList
    /\ pc = "lanes"
    /\ i = 1
    /\ commitLanes = InitialLaneState(EmptyMap).commitLanes
    /\ reservedLanes = InitialLaneState(EmptyMap).reservedLanes
    /\ nextLane = InitialLaneState(EmptyMap).nextLane
    /\ scans = InitialLaneState(EmptyMap).scans
    /\ DrawAtRest
    /\ UIAtRest
    /\ CallAtRest
    /\ HostAtRest

\* for (const commit of commits) { ... }: one iteration.
LaneStep ==
    /\ pc = "lanes"
    /\ i <= Len(commits)
    /\ LET st == LaneIteration(
                    [commitLanes |-> commitLanes, reservedLanes |-> reservedLanes,
                     nextLane |-> nextLane, scans |-> scans], commits[i])
       IN  /\ commitLanes' = st.commitLanes
           /\ reservedLanes' = st.reservedLanes
           /\ nextLane' = st.nextLane
           /\ scans' = st.scans
    /\ i' = i + 1
    /\ UNCHANGED <<commits, callVars, hostVars, pc, drawVars, uiVars>>

\* The loop ends and calculateLanes returns commitLanes.
LaneReturn ==
    /\ pc = "lanes"
    /\ i > Len(commits)
    /\ pc' = "done"
    /\ UNCHANGED <<commits, callVars, hostVars, laneVars, drawVars, uiVars>>

Next == LaneStep \/ LaneReturn

Spec == Init /\ [][Next]_vars

\* ------------------------------------------------- claims on calculateLanes
\* The rows strictly between a child and its parent.
RowsBetween(c, p) == {r \in 1..Len(commits) : c < r /\ r < p}

\* C1: on a list in topological order, when calculateLanes has returned every
\* commit has a lane that is a natural number, and for every edge from a child
\* to a parent further down and every row strictly between the two, the lane
\* of the parent is not the lane of the commit of that row.
C1_LaneValidity ==
    (pc = "done" /\ Topological(commits)) =>
        /\ \A r \in 1..Len(commits) :
              /\ MapHas(commitLanes, commits[r].hash)
              /\ commitLanes[commits[r].hash] \in Nat
        /\ \A c \in 1..Len(commits) : \A k \in 1..Len(commits[c].parents) :
              \A r \in RowsBetween(c, FindIndex(commits, commits[c].parents[k])) :
                  commitLanes[commits[c].parents[k]] # commitLanes[commits[r].hash]

\* A merge at row 1 whose second parent is at row 4: its edge runs through
\* rows 2 and 3 while the first parent's chain goes on in lane 0.
C1_Witness ==
    /\ pc = "done"
    /\ Topological(commits)
    /\ Len(commits) = 4
    /\ commits[1].parents = <<2, 4>>
    /\ commits[2].parents = <<3>>
    /\ commitLanes[4] = 1
    /\ commitLanes[3] = 0

\* C2: an iteration on a commit with exactly two parents, neither of them
\* reserved when the iteration starts, leaves the first parent reserved in the
\* commit's own lane and the second in another lane, and that lane is the only
\* lane newly held by a reservation: one scan, two new reservations.
C2_MergeTakesOneNewLane ==
    [][ ( /\ pc = "lanes"
          /\ i <= Len(commits)
          /\ Len(commits[i].parents) = 2
          /\ ~MapHas(reservedLanes, commits[i].parents[1])
          /\ ~MapHas(reservedLanes, commits[i].parents[2])
          /\ i' = i + 1 )
        => LET hash == commits[i].hash
               first == commits[i].parents[1]
               second == commits[i].parents[2]
               own == commitLanes'[hash]
               held == Range(MapDelete(reservedLanes, hash))
           IN  /\ DOMAIN reservedLanes' = (DOMAIN reservedLanes \ {hash}) \cup {first, second}
               /\ reservedLanes'[first] = own
               /\ reservedLanes'[second] # own
               /\ Range(reservedLanes') \ (held \cup {own}) = {reservedLanes'[second]}
               /\ Len(scans') = 1
               /\ scans'[1].parent = second
      ]_vars

\* The second merge of a list has been processed while the first merge's
\* parents were still reserved: lanes 0 and 1 were held, the scan took lane 2.
C2_Witness ==
    /\ pc = "lanes"
    /\ i = 3
    /\ Len(commits[1].parents) = 2
    /\ Len(commits[2].parents) = 2
    /\ Len(scans) = 1
    /\ scans[1].pending = 2
    /\ scans[1].lane = 2

\* A single unbroken parent chain: the only parent of each commit is the
\* commit of the next row; the last commit has no parent, or one outside the list.
IsChain(cs) ==
    /\ Len(cs) > 0
    /\ \A r \in 1..(Len(cs) - 1) : cs[r].parents = <<cs[r + 1].hash>>
    /\ Len(cs[Len(cs)].parents) <= 1
    /\ \A k \in 1..Len(cs[Len(cs)].parents) : cs[Len(cs)].parents[k] \notin HashesOf(cs)

\* C3: on a single unbroken parent chain calculateLanes gives lane 0 to every commit.
C3_ChainInLaneZero ==
    (pc = "done" /\ IsChain(commits)) =>
        \A r \in 1..Len(commits) : MapGet(commitLanes, commits[r].hash) = 0

C3_Witness ==
    /\ pc = "done"
    /\ IsChain(commits)
    /\ Len(commits) >= 3
    /\ DOMAIN commitLanes = HashesOf(commits)

\* C4: on the scenario list of spec.md section 8 calculateLanes returns exactly
\* C1:0, C2:0, C3:0, C4:1, C5:0.
C4_Scenario ==
    (pc = "done" /\ commits = ScenarioList) =>
        commitLanes = [h \in 1..5 |-> IF h = 4 THEN 1 ELSE 0]

C4_Witness ==
    /\ pc = "done"
    /\ commits = ScenarioList
    /\ DOMAIN commitLanes = 1..5

\* C6: on any list, a self-parent and a parent above its child included, the
\* loop is one pass: after k iterations exactly the first k rows have a lane,
\* the loop returns at the row after the last, and every free-lane scan has
\* stopped at a lane no greater than the number of reservations pending when
\* it started.
C6_BoundedScan ==
    /\ i \in 1..(Len(commits) + 1)
    /\ DOMAIN commitLanes = {commits[r].hash : r \in 1..(i - 1)}
    /\ \A k \in 1..Len(scans) : scans[k].lane <= scans[k].pending
    /\ (pc = "done" => i = Len(commits) + 1)

\* A commit that names itself as first parent and has a second parent: the
\* scan for the second parent ran with the self-reservation pending.
C6_Witness ==
    /\ pc = "lanes"
    /\ i = 2
    /\ ~Topological(commits)
    /\ commits[1].parents = <<1, 2>>
    /\ Len(scans) = 1
    /\ scans[1].pending = 1

\* C18: at every step of calculateLanes, on any list, no two pending
\* reservations hold the same lane.
C18_ReservationsDistinct ==
    \A h1, h2 \in DOMAIN reservedLanes :
        h1 # h2 => reservedLanes[h1] # reservedLanes[h2]

\* Three reservations are pending, on three lanes.
C18_Witness ==
    /\ Cardinality(DOMAIN reservedLanes) = 3
    /\ Cardinality(Range(reservedLanes)) = 3
    /\ pc = "lanes"

\* The rows reached before row r whose reservation was claimed: a commit holds
\* a reservation when it is reached exactly when a row above names it.
ClaimedRows(r) ==
    {q \in 1..r : \E p \in 1..(q - 1) : commits[q].hash \in Range(commits[p].parents)}

\* C19, as claimed: a scan hands out a lane used before (a lane below nextLane)
\* only when a reservation on that lane has been claimed.
C19_ReuseOnlyAfterClaim ==
    \A k \in 1..Len(scans) :
        scans[k].lane < scans[k].next =>
            \E q \in ClaimedRows(i - 1) : commitLanes[commits[q].hash] = scans[k].lane

\* C19, amended: a scan hands out the lowest lane that no pending reservation
\* holds when it starts, whether or not that lane was used or reserved before.
C19_LowestUnreservedLane ==
    \A k \in 1..Len(scans) :
        /\ scans[k].lane \notin scans[k].used
        /\ \A l \in 0..(scans[k].lane - 1) : l \in scans[k].used

\* Row 1 is a root in lane 0, which was never reserved; the scan for the
\* second parent of the merge commit of row 2 hands out lane 0 again.
C19_Witness ==
    /\ i = 3
    /\ commits[1].parents = <<>>
    /\ commitLanes[commits[1].hash] = 0
    /\ Len(scans) = 1
    /\ scans[1].lane = 0
    /\ scans[1].next = 2

\* C20: a reservation is never overwritten.  An iteration on another commit
\* leaves every pending reservation as it is and scans no lane for a hash
\* that holds one; the iteration on the reserved commit gives it exactly the
\* reserved lane and removes the reservation (the hash is reserved afterwards
\* only if the commit names itself as a parent, which reserves anew).
C20_FirstWriterWins ==
    [][ i' = i + 1 =>
          LET commit == commits[i]
          IN  /\ \A h \in DOMAIN reservedLanes :
                     IF h = commit.hash
                     THEN /\ commitLanes'[h] = reservedLanes[h]
                          /\ h \in DOMAIN reservedLanes' => h \in Range(commit.parents)
                     ELSE /\ h \in DOMAIN reservedLanes'
                          /\ reservedLanes'[h] = reservedLanes[h]
              /\ \A k \in 1..Len(scans') :
                     scans'[k].parent \notin DOMAIN reservedLanes \ {commit.hash}
      ]_vars

\* Rows 1 and 2 both name the commit of row 3 as first parent: it was
\* reserved by row 1, in lane 0, took that lane, and is no longer reserved.
C20_Witness ==
    /\ i >= 4
    /\ commits[1].parents = <<3>>
    /\ commits[2].parents = <<3>>
    /\ commitLanes[commits[2].hash] = 1
    /\ commitLanes[commits[3].hash] = 0
    /\ commits[3].hash \notin DOMAIN reservedLanes

\* The smallest natural number that is not in S.
LeastAbsent(S) == CHOOSE l \in 0..Cardinality(S) : l \notin S /\ \A m \in 0..(l - 1) : m \in S

\* C21: in an iteration, the k-th additional parent that has no reservation
\* is reserved in the smallest lane >= 0 that no pending reservation holds at
\* that moment: those left by the rows above, the one made for the first
\* parent in this iteration, and those made for the additional parents before
\* it.  nextLane ends as the greatest of its value after the commit took its
\* lane and every lane handed out + 1.
C21_SmallestFreeLane ==
    [][ i' = i + 1 =>
          LET commit == commits[i]
              claimed == [h \in DOMAIN reservedLanes \ {commit.hash} |-> reservedLanes[h]]
              held0 == Range(claimed) \cup
                          (IF Len(commit.parents) > 0 /\ commit.parents[1] \notin DOMAIN claimed
                           THEN {commitLanes'[commit.hash]} ELSE {})
              held(k) == held0 \cup {scans'[m].lane : m \in 1..(k - 1)}
              next0 == IF commit.hash \in DOMAIN reservedLanes THEN nextLane ELSE nextLane + 1
              raised == {next0} \cup {scans'[k].lane + 1 : k \in 1..Len(scans')}
          IN  /\ \A k \in 1..Len(scans') :
                     /\ scans'[k].lane = LeastAbsent(held(k))
                     /\ reservedLanes'[scans'[k].parent] = scans'[k].lane
              /\ nextLane' = CHOOSE x \in raised : \A y \in raised : y <= x
      ]_vars

\* Row 1 is a merge commit in lane 0: its first parent was reserved in lane 0
\* in this iteration, so the scan for its second parent stepped over lane 0,
\* handed out lane 1 and nextLane was raised from 1 to 2.
C21_Witness ==
    /\ i = 2
    /\ Len(scans) = 1
    /\ scans[1].used = {0}
    /\ scans[1].lane = 1
    /\ scans[1].next = 1
    /\ nextLane = 2

\* C25: at every step nextLane is above every lane a commit has and every
\* lane a reservation holds; so a commit reached without a reservation (no
\* row above names it) has a lane that no row above it has.
C25_NextLaneAboveAll ==
    /\ \A h \in DOMAIN commitLanes : commitLanes[h] < nextLane
    /\ \A h \in DOMAIN reservedLanes : reservedLanes[h] < nextLane
    /\ \A q \in (1..(i - 1)) \ ClaimedRows(i - 1) :
           \A p \in 1..(q - 1) : commitLanes[commits[p].hash] # commitLanes[commits[q].hash]

\* Row 1 is a root, so lane 0 is abandoned; row 2, reached without a
\* reservation, is in lane 1 all the same.
C25_Witness ==
    /\ i >= 3
    /\ commits[1].parents = <<>>
    /\ commitLanes[commits[1].hash] = 0
    /\ commitLanes[commits[2].hash] = 1
    /\ nextLane = 2

\* -------------------------------------------------- drawGraph, pass by pass
\* The tables drawn: the lists in topological order, each with the ref
\* 'HEAD -> main' on one row or on none, the lists with arbitrary parents, and
\* the scenario of spec.md section 8.
\* A chain of n commits where the rows of H carry the refs 'main' and 'HEAD'
\* (a detached HEAD, not the first ref of its row).
DetachedChain(n, H) ==
    [q \in 1..n |-> Commit(q, <<q + 1>>,
                          IF q \in H THEN <<RefBranch("main"), RefDetachedHead>> ELSE <<>>)]

TableInputs ==
    \/ \E n \in 0..MaxRows : ChooseRows(1, n, TRUE, 0..n, <<>>)
    \/ \E n \in 0..MaxAnyCommits : ChooseRows(1, n, FALSE, {0}, <<>>)
    \/ \E n \in 1..MaxRows : \E H \in SUBSET (1..n) : commits = DetachedChain(n, H)
    \/ commits = ScenarioList

LanesAtRest ==
    /\ i = 1
    /\ commitLanes = EmptyMap
    /\ reservedLanes = EmptyMap
    /\ nextLane = 0
    /\ scans = <<>>

InitDraw ==
    /\ TableInputs
    /\ pc = "render"
    /\ LanesAtRest
    /\ DrawAtRest
    /\ UIAtRest
    /\ CallAtRest
    /\ HostAtRest

\* drawGraph(): calculateLanes into this.commitLanes, holding lanes0 when the
\* pass starts, then every canvas of the table is sized and drawn.
RenderPass(lanes0) ==
    LET lanes == CalculateLanes(commits, lanes0)
        drawn == DrawAll(commits, lanes)
        width == CanvasWidth(lanes)
    IN  /\ commitLanes' = lanes
        /\ canvases' = drawn
        /\ canvasWidth' = width
        /\ runs' = runs + 1
        /\ IF runs = 0
           THEN firstLanes' = lanes /\ firstCanvases' = <<drawn, width>>
           ELSE UNCHANGED <<firstLanes, firstCanvases>>
        /\ UNCHANGED <<i, reservedLanes, nextLane, scans>>

\* const renderer = new GraphRenderer(); renderer.drawGraph();
\* The constructor makes this.commitLanes an empty Map.
DrawGraphFresh ==
    /\ pc = "render"
    /\ Len(commits) > 0
    /\ runs < MaxRuns
    /\ RenderPass(EmptyMap)
    /\ UNCHANGED <<commits, callVars, hostVars, pc, uiVars>>

\* renderer.drawGraph() once more on the same instance: calculateLanes does
\* not clear this.commitLanes.
DrawGraphAgain ==
    /\ pc = "render"
    /\ Len(commits) > 0
    /\ runs >= 1
    /\ runs < MaxRuns
    /\ RenderPass(commitLanes)
    /\ UNCHANGED <<commits, callVars, hostVars, pc, uiVars>>

NextDraw == DrawGraphFresh \/ DrawGraphAgain

SpecDraw == InitDraw /\ [][NextDraw]_vars

\* ------------------------------------------------------ claims on drawing
\* C5: the layout is deterministic.  Whatever the list, a second and any
\* later pass, by a fresh renderer or by the same instance with the lane map
\* of the pass before still in it, ends with the lane map, the canvases and
\* the canvas width of the first pass.
C5_Deterministic ==
    runs >= 2 =>
        /\ commitLanes = firstLanes
        /\ <<canvases, canvasWidth>> = firstCanvases

\* Two passes over a list with a merge, which takes two lanes.
C5_Witness ==
    /\ runs = 2
    /\ Len(commits) = 3
    /\ commits[1].parents = <<2, 3>>
    /\ Cardinality(Range(commitLanes)) = 2
    /\ firstLanes = commitLanes

\* The list with the k-th parent of row c taken out.
WithoutParent(cs, c, k) ==
    [r \in 1..Len(cs) |->
        IF r = c
        THEN Commit(cs[r].hash,
                    SubSeq(cs[r].parents, 1, k - 1)
                        \o SubSeq(cs[r].parents, k + 1, Len(cs[r].parents)),
                    cs[r].refs)
        ELSE cs[r]]

\* C7: a parent hash that is not in the list draws nothing.  Every canvas is
\* what it would be with that parent left out of its commit's parents (no
\* passthrough in any row, no connector), and the lower half of the commit's
\* own lane line is there iff another of its parents is at a greater row.
C7_AbsentParent ==
    runs >= 1 =>
        \A c \in 1..Len(commits) : \A k \in 1..Len(commits[c].parents) :
            commits[c].parents[k] \notin HashesOf(commits) =>
                /\ canvases = DrawAll(WithoutParent(commits, c, k), commitLanes)
                /\ (\E s \in canvases[c] : s.kind = "lower")
                      <=> (\E j \in 1..Len(commits[c].parents) :
                              /\ j # k
                              /\ \E r \in (c + 1)..Len(commits) :
                                    commits[r].hash = commits[c].parents[j])
                /\ \A r \in 1..Len(commits) : \A s \in canvases[r] :
                      s.from # Undefined /\ s.to # Undefined

\* Row 1 has an absent first parent and a second parent at row 2: the lower
\* half of its lane line is drawn for the second parent only; row 3 has an
\* absent parent alone and no lower half.
C7_Witness ==
    /\ runs = 1
    /\ Len(commits) = 3
    /\ commits[1].parents = <<4, 2>>
    /\ commits[3].parents = <<4>>
    /\ \E s \in canvases[1] : s.kind = "lower"
    /\ \E s \in canvases[1] : s.kind = "outgoing"
    /\ ~\E s \in canvases[3] : s.kind = "lower"

\* The rows of the list that carry the ref 'HEAD' or 'HEAD -> main'.
HeadRows == {r \in 1..Len(commits) : \E k \in 1..Len(commits[r].refs) :
                commits[r].refs[k] \in {RefDetachedHead, RefHeadAt("main")}}

\* The rows whose canvas holds a marker of the given kind.
MarkedRows(kind) == {r \in 1..Len(canvases) : \E s \in canvases[r] : s.kind = kind}

\* C17: once a non-empty list is drawn, exactly one row holds the hollow ring:
\* the first row that carries a HEAD ref, or row 1 when no row carries one;
\* every other row holds the filled disc, and no row holds both.
C17_OneHeadMarker ==
    (runs >= 1 /\ Len(commits) > 0) =>
        LET head == IF HeadRows # {}
                    THEN CHOOSE r \in HeadRows : \A q \in HeadRows : r <= q
                    ELSE 1
        IN  /\ MarkedRows("ring") = {head}
            /\ MarkedRows("disc") = (1..Len(commits)) \ {head}

\* A drawn list whose rows 2 and 3 both carry the ref 'HEAD': the ring is on
\* row 2 only.
C17_Witness ==
    /\ runs >= 1
    /\ HeadRows = {2, 3}
    /\ MarkedRows("ring") = {2}
    /\ MarkedRows("disc") = {1, 3}

\* The lanes a stroke may lie in: there are no more lanes than hashes.
LaneNumbers == 0..(Len(commits) + 1)

\* The lane of the commit of row r after the pass.
LaneOfRow(r) == commitLanes[commits[r].hash]

\* Row r has a parent that is the commit of a row below it, in lane K or
\* (K = Undefined) in any lane.
ParentBelow(q, r, K) ==
    \E k \in 1..Len(commits[q].parents) : \E pr \in (r + 1)..Len(commits) :
        /\ commits[pr].hash = commits[q].parents[k]
        /\ K # Undefined => LaneOfRow(pr) = K

\* C22: on the canvas of row r, whose commit is in lane L, a full-height
\* segment lies in lane K iff K # L and a commit of a row above r has a
\* parent in a row below r whose lane is K; its colour is K mod the palette
\* size.
C22_Passthrough ==
    runs >= 1 =>
        \A r \in 1..Len(commits) :
            /\ \A K \in LaneNumbers :
                   (\E s \in canvases[r] : s.kind = "passthrough" /\ s.to = K)
                   <=> /\ K # LaneOfRow(r)
                       /\ \E q \in 1..(r - 1) : ParentBelow(q, r, K)
            /\ \A s \in canvases[r] :
                   s.kind = "passthrough" =>
                       /\ s.from = s.to
                       /\ s.to \in LaneNumbers
                       /\ s.color = s.to % PaletteSize

\* Row 1 is a merge commit whose second parent is the commit of row 3, in
\* lane 1: the canvas of row 2, a commit of lane 0, holds the passthrough of
\* lane 1 and no other.
C22_Witness ==
    /\ runs >= 1
    /\ Len(commits) = 3
    /\ commits[1].parents = <<2, 3>>
    /\ LaneOfRow(2) = 0
    /\ {s \in canvases[2] : s.kind = "passthrough"} = {Stroke("passthrough", 1, 1, 1)}

\* C23: on the canvas of row r the upper half of the commit's lane line is
\* drawn iff a commit of a row above lists this commit as a parent, and the
\* lower half iff this commit has a parent in a row below; both in the
\* commit's lane.  A commit with neither is drawn as its marker alone: no
\* half line and no connector (the row may still hold the passthroughs of
\* other commits' edges).
C23_LaneLine ==
    runs >= 1 =>
        \A r \in 1..Len(commits) :
            LET incoming == \E q \in 1..(r - 1) : \E k \in 1..Len(commits[q].parents) :
                                commits[q].parents[k] = commits[r].hash
                outgoing == ParentBelow(r, r, Undefined)
                L == LaneOfRow(r)
                ofKind(kind) == {s \in canvases[r] : s.kind = kind}
            IN  /\ ofKind("upper") = (IF incoming THEN {Stroke("upper", L, L, L % PaletteSize)} ELSE {})
                /\ ofKind("lower") = (IF outgoing THEN {Stroke("lower", L, L, L % PaletteSize)} ELSE {})
                /\ (~incoming /\ ~outgoing) =>
                       /\ Cardinality(ofKind("ring") \cup ofKind("disc")) = 1
                       /\ canvases[r] = ofKind("ring") \cup ofKind("disc") \cup ofKind("passthrough")

\* Row 2 is a commit that no row above names and whose only parent is not in
\* the list, under a row that is the child of row 3: its canvas holds its
\* marker and the passthrough of that edge, no half line.
C23_Witness ==
    /\ runs >= 1
    /\ Len(commits) = 3
    /\ commits[1].parents = <<3>>
    /\ commits[2].parents = <<4>>
    /\ canvases[2] = {Stroke("disc", 1, 1, 1), Stroke("passthrough", 0, 0, 0)}

\* A segment of the canvas of row r touches its bottom edge in lane K: the
\* lower half of the lane line, a passthrough, or the end of an outgoing
\* connector (bezier to (parentX, ROW_HEIGHT)).
TouchesBottom(r, K) ==
    \E s \in canvases[r] :
        /\ s.kind \in {"lower", "passthrough", "outgoing"}
        /\ s.to = K

\* A segment of the canvas of row r touches its top edge in lane K: the upper
\* half of the lane line, a passthrough, or the start of an incoming
\* connector (bezier from (childX, 0)).
TouchesTop(r, K) ==
    \E s \in canvases[r] :
        /\ s.kind \in {"upper", "passthrough", "incoming"}
        /\ s.from = K

\* Every parent named in the list is the commit of one of its rows.
ParentsInList == \A r \in 1..Len(commits) : Range(commits[r].parents) \subseteq HashesOf(commits)

\* C30: on a drawn list in topological order whose parents are all in the
\* list, for every row r and lane K a segment touches the bottom edge of row r
\* in lane K iff a segment touches the top edge of row r + 1 in lane K.
C30_Continuous ==
    (runs >= 1 /\ Topological(commits) /\ ParentsInList) =>
        \A r \in 1..(Len(commits) - 1) : \A K \in LaneNumbers :
            TouchesBottom(r, K) <=> TouchesTop(r + 1, K)

\* ---------------------------------------- the webview script and its events
\* The parents of row r in the lists given to the selection: none, the commit
\* of the next row, the one after it, or both in either order.  Past the end
\* of the list these are hashes that are not in it.
ParentShapes(r) == {<<>>, <<r + 1>>, <<r + 2>>, <<r + 1, r + 2>>, <<r + 2, r + 1>>}

RECURSIVE ChooseShapes(_, _, _)
ChooseShapes(r, n, acc) ==
    IF r > n THEN commits = acc
    ELSE \E ps \in ParentShapes(r) : ChooseShapes(r + 1, n, Append(acc, Commit(r, ps, <<>>)))

InitUI ==
    /\ \E n \in 0..MaxRows : ChooseShapes(1, n, <<>>)
    /\ pc = "script"
    /\ LanesAtRest
    /\ DrawAtRest
    /\ UIAtRest
    /\ CallAtRest
    /\ HostAtRest

\* A script that renders and listens whatever the list holds.
ScriptGuardAlways == Len(commits) >= 0

\* if (commits.length > 0) { renderer.drawGraph(); ... addEventListener ... }
ScriptGuard == Len(commits) > 0

\* The script of the page, run once when the webview loads.
RunScript ==
    /\ pc = "script"
    /\ pc' = "ready"
    /\ IF ScriptGuard
       THEN /\ RenderPass(EmptyMap)
            /\ handlers' = TRUE
       ELSE /\ handlers' = FALSE
            /\ UNCHANGED <<laneVars, drawVars>>
    /\ UNCHANGED <<commits, callVars, hostVars, rangeStartIndex, selectedIndices, selectedCommitHash,
                   selectedRow, contextMenu, rangeContextMenu, squashItem, editing,
                   lastEvent, lastPost>>

\* The rows of the table: one tr per commit.
TableRows == 1..Len(commits)

\* A shift-click that adds its range to the rows already selected.
ClickSelectionFromPrevious(clickedIndex, shiftKey) ==
    IF shiftKey /\ rangeStartIndex # Null
    THEN /\ selectedIndices' = selectedIndices \cup
                {r \in TableRows : /\ Min(rangeStartIndex, clickedIndex) <= r
                                   /\ r <= Max(rangeStartIndex, clickedIndex)}
         /\ UNCHANGED rangeStartIndex
    ELSE /\ rangeStartIndex' = clickedIndex
         /\ selectedIndices' = {clickedIndex}

\* A plain click that adds its row to the rows already selected.
ClickSelectionKeepsRange(clickedIndex, shiftKey) ==
    IF shiftKey /\ rangeStartIndex # Null
    THEN /\ selectedIndices' = {r \in TableRows : /\ Min(rangeStartIndex, clickedIndex) <= r
                                                  /\ r <= Max(rangeStartIndex, clickedIndex)}
         /\ UNCHANGED rangeStartIndex
    ELSE /\ rangeStartIndex' = clickedIndex
         /\ selectedIndices' = selectedIndices \cup {clickedIndex}

\* The click listener of commit-tbody, on a row.
ClickSelection(clickedIndex, shiftKey) ==
    IF shiftKey /\ rangeStartIndex # Null
    THEN LET min == Min(rangeStartIndex, clickedIndex)
             max == Max(rangeStartIndex, clickedIndex)
         IN  /\ selectedIndices' = {r \in min..max : TRUE}
             /\ UNCHANGED rangeStartIndex
    ELSE /\ rangeStartIndex' = clickedIndex
         /\ selectedIndices' = {clickedIndex}

\* A document listener that hides the single-commit menu only.
HideMenusKeepsRange ==
    /\ contextMenu' = FALSE
    /\ UNCHANGED rangeContextMenu

\* document.addEventListener('click', ...): both menus are hidden.
HideMenus ==
    /\ contextMenu' = FALSE
    /\ rangeContextMenu' = FALSE

\* A click on row clickedIndex: the listener of commit-tbody, then the
\* listener of the document it bubbles to.  An open message input loses the
\* focus (blur: cancelEdit).
ClickRow(clickedIndex, shiftKey) ==
    /\ pc = "ready"
    /\ handlers
    /\ clickedIndex \in TableRows
    /\ ClickSelection(clickedIndex, shiftKey)
    /\ HideMenus
    /\ editing' = Null
    /\ lastEvent' = Event("click", clickedIndex, shiftKey, Cardinality(selectedIndices))
    /\ lastPost' = NoMessage
    /\ UNCHANGED <<commits, callVars, hostVars, pc, laneVars, drawVars, handlers, selectedCommitHash,
                   selectedRow, squashItem>>

\* A click outside the rows and the menus: the listener of the document.
ClickElsewhere ==
    /\ pc = "ready"
    /\ handlers
    /\ HideMenus
    /\ editing' = Null
    /\ lastEvent' = Event("click", Null, FALSE, Cardinality(selectedIndices))
    /\ lastPost' = NoMessage
    /\ UNCHANGED <<commits, callVars, hostVars, pc, laneVars, drawVars, handlers, rangeStartIndex,
                   selectedIndices, selectedCommitHash, selectedRow, squashItem>>

\* A contextmenu listener that always opens the single-commit menu: a
\* right-click inside a selected range collapses it to the clicked row.
ContextMenuRowCollapses(clickedIndex) ==
    /\ pc = "ready"
    /\ handlers
    /\ clickedIndex \in TableRows
    /\ selectedCommitHash' = commits[clickedIndex].hash
    /\ selectedRow' = clickedIndex
    /\ rangeStartIndex' = clickedIndex
    /\ selectedIndices' = {clickedIndex}
    /\ contextMenu' = TRUE
    /\ rangeContextMenu' = FALSE
    /\ editing' = Null
    /\ lastEvent' = Event("contextmenu", clickedIndex, FALSE, Cardinality(selectedIndices))
    /\ lastPost' = NoMessage
    /\ UNCHANGED <<commits, callVars, hostVars, pc, laneVars, drawVars, handlers, squashItem>>

\* A contextmenu listener that shows its menu without hiding the other one
\* first.
ContextMenuRowKeepsOther(clickedIndex) ==
    /\ pc = "ready"
    /\ handlers
    /\ clickedIndex \in TableRows
    /\ IF Cardinality(selectedIndices) > 1 /\ clickedIndex \in selectedIndices
       THEN /\ squashItem' = AreCommitsConsecutive(commits, SortAscending(selectedIndices))
            /\ rangeContextMenu' = TRUE
            /\ UNCHANGED <<contextMenu, selectedCommitHash, selectedRow, rangeStartIndex,
                           selectedIndices>>
       ELSE /\ selectedCommitHash' = commits[clickedIndex].hash
            /\ selectedRow' = clickedIndex
            /\ rangeStartIndex' = clickedIndex
            /\ selectedIndices' = {clickedIndex}
            /\ contextMenu' = TRUE
            /\ UNCHANGED <<rangeContextMenu, squashItem>>
    /\ editing' = Null
    /\ lastEvent' = Event("contextmenu", clickedIndex, FALSE, Cardinality(selectedIndices))
    /\ lastPost' = NoMessage
    /\ UNCHANGED <<commits, callVars, hostVars, pc, laneVars, drawVars, handlers>>

\* The contextmenu listener of commit-tbody, on a row.
ContextMenuRow(clickedIndex) ==
    /\ pc = "ready"
    /\ handlers
    /\ clickedIndex \in TableRows
    /\ IF Cardinality(selectedIndices) > 1 /\ clickedIndex \in selectedIndices
       THEN LET sortedIndices == SortAscending(selectedIndices)
                consecutive == AreCommitsConsecutive(commits, sortedIndices)
            IN  /\ squashItem' = consecutive
                /\ rangeContextMenu' = TRUE
                /\ contextMenu' = FALSE
                /\ UNCHANGED <<selectedCommitHash, selectedRow, rangeStartIndex,
                               selectedIndices>>
       ELSE /\ selectedCommitHash' = commits[clickedIndex].hash
            /\ selectedRow' = clickedIndex
            /\ rangeStartIndex' = clickedIndex
            /\ selectedIndices' = {clickedIndex}
            /\ contextMenu' = TRUE
            /\ rangeContextMenu' = FALSE
            /\ UNCHANGED squashItem
    /\ editing' = Null
    /\ lastEvent' = Event("contextmenu", clickedIndex, FALSE, Cardinality(selectedIndices))
    /\ lastPost' = NoMessage
    /\ UNCHANGED <<commits, callVars, hostVars, pc, laneVars, drawVars, handlers>>

\* The contextmenu listener of commit-tbody, off the rows: closest('tr') is null.
ContextMenuOffRow ==
    /\ pc = "ready"
    /\ handlers
    /\ HideMenus
    /\ editing' = Null
    /\ lastEvent' = Event("contextmenu", Null, FALSE, Cardinality(selectedIndices))
    /\ lastPost' = NoMessage
    /\ UNCHANGED <<commits, callVars, hostVars, pc, laneVars, drawVars, handlers, rangeStartIndex,
                   selectedIndices, selectedCommitHash, selectedRow, squashItem>>

\* A click on an item of the single-commit menu: the listener of contextMenu,
\* then the listener of the document.
SingleMenuItem(action) ==
    /\ pc = "ready"
    /\ handlers
    /\ contextMenu
    /\ action \in SingleActions
    /\ HideMenus
    /\ IF selectedCommitHash = Null
       THEN /\ lastPost' = NoMessage
            /\ editing' = Null
       ELSE IF action = "editCommitMessage"
       THEN /\ lastPost' = NoMessage
            /\ editing' = selectedRow
       ELSE /\ lastPost' = Message(action, selectedCommitHash, <<>>, Undefined, "")
            /\ editing' = Null
    /\ lastEvent' = Event("menu", Null, FALSE, Cardinality(selectedIndices))
    /\ UNCHANGED <<commits, callVars, hostVars, pc, laneVars, drawVars, handlers, rangeStartIndex,
                   selectedIndices, selectedCommitHash, selectedRow, squashItem>>

\* Enter in the message input: confirmEdit.
EditEnter(typed) ==
    /\ pc = "ready"
    /\ handlers
    /\ editing # Null
    /\ typed \in TypedMessages
    /\ lastPost' = IF typed # "" /\ typed # "original"
                   THEN Message("editCommitMessage", selectedCommitHash, <<>>, Undefined, typed)
                   ELSE NoMessage
    /\ editing' = Null
    /\ lastEvent' = Event("enter", Null, FALSE, Cardinality(selectedIndices))
    /\ UNCHANGED <<commits, callVars, hostVars, pc, laneVars, drawVars, handlers, rangeStartIndex,
                   selectedIndices, selectedCommitHash, selectedRow, contextMenu,
                   rangeContextMenu, squashItem>>

\* Escape in the message input: cancelEdit.
EditEscape ==
    /\ pc = "ready"
    /\ handlers
    /\ editing # Null
    /\ editing' = Null
    /\ lastPost' = NoMessage
    /\ lastEvent' = Event("escape", Null, FALSE, Cardinality(selectedIndices))
    /\ UNCHANGED <<commits, callVars, hostVars, pc, laneVars, drawVars, handlers, rangeStartIndex,
                   selectedIndices, selectedCommitHash, selectedRow, contextMenu,
                   rangeContextMenu, squashItem>>

\* The last parent taken for the first.
LastParentOf(commit) ==
    IF Len(commit.parents) > 0 THEN commit.parents[Len(commit.parents)] ELSE Undefined

\* commits[oldestIndex].parents[0]: undefined for a commit without parents.
FirstParentOf(commit) ==
    IF Len(commit.parents) > 0 THEN commit.parents[1] ELSE Undefined

\* A click on a displayed item of the range menu: the listener of
\* rangeContextMenu, then the listener of the document.
RangeMenuItem(action) ==
    /\ pc = "ready"
    /\ handlers
    /\ rangeContextMenu
    /\ action \in RangeActions
    /\ action = "squashCommits" => squashItem
    /\ HideMenus
    /\ LET sortedIndices == SortAscending(selectedIndices)
           hashes == [k \in 1..Len(sortedIndices) |-> commits[sortedIndices[k]].hash]
           oldestIndex == sortedIndices[Len(sortedIndices)]
           parentHash == FirstParentOf(commits[oldestIndex])
       IN  lastPost' = Message(action, Null, hashes, parentHash, "")
    /\ editing' = Null
    /\ lastEvent' = Event("rangemenu", Null, FALSE, Cardinality(selectedIndices))
    /\ UNCHANGED <<commits, callVars, hostVars, pc, laneVars, drawVars, handlers, rangeStartIndex,
                   selectedIndices, selectedCommitHash, selectedRow, squashItem>>

NextUI ==
    \/ RunScript
    \/ \E r \in 1..MaxRows, shiftKey \in BOOLEAN : ClickRow(r, shiftKey)
    \/ ClickElsewhere
    \/ \E r \in 1..MaxRows : ContextMenuRow(r)
    \/ ContextMenuOffRow
    \/ \E action \in SingleActions : SingleMenuItem(action)
    \/ \E typed \in TypedMessages : EditEnter(typed)
    \/ EditEscape
    \/ \E action \in RangeActions : RangeMenuItem(action)

SpecUI == InitUI /\ [][NextUI]_vars

\* ---------------------------------------------------- claims on selection
\* C8: with an empty commit list the lane map is empty, no canvas is drawn
\* and no pass is made, no listener is installed, and so the selection and
\* the menus stay as the page made them and no message is posted.
C8_EmptyList ==
    Len(commits) = 0 =>
        /\ CalculateLanes(commits, EmptyMap) = EmptyMap
        /\ commitLanes = EmptyMap
        /\ canvases = <<>>
        /\ runs = 0
        /\ ~handlers
        /\ rangeStartIndex = Null
        /\ selectedIndices = {}
        /\ ~contextMenu
        /\ ~rangeContextMenu
        /\ lastEvent.type = "none"
        /\ lastPost = NoMessage

\* The script has run to its end on the empty list.
C8_Witness ==
    /\ pc = "ready"
    /\ Len(commits) = 0
    /\ ~handlers

\* C9: after a click without shift on row r the anchor is r and the selected
\* set is exactly {r}, whatever was selected before.
C9_PlainClick ==
    (lastEvent.type = "click" /\ lastEvent.row # Null /\ ~lastEvent.shift) =>
        /\ rangeStartIndex = lastEvent.row
        /\ selectedIndices = {lastEvent.row}

\* A plain click on row 2 arrived while the three rows 1..3 were selected.
C9_Witness ==
    /\ lastEvent = Event("click", 2, FALSE, 3)
    /\ rangeStartIndex = 2
    /\ selectedIndices = {2}

\* C10: a shift-click on row r while an anchor exists selects exactly the rows
\* from min(anchor, r) to max(anchor, r), both included, and leaves the anchor
\* as it was, whatever range was selected before.
C10_ShiftClick ==
    [][ ( /\ lastEvent'.type = "click"
          /\ lastEvent'.row # Null
          /\ lastEvent'.shift
          /\ rangeStartIndex # Null )
        => /\ rangeStartIndex' = rangeStartIndex
           /\ selectedIndices' =
                 Min(rangeStartIndex, lastEvent'.row)..Max(rangeStartIndex, lastEvent'.row)
      ]_vars

\* A shift-click on row 1 arrived while the anchor was row 2 and the rows
\* 2..3 of an earlier shift-click were selected: rows 1..2 are selected now.
C10_Witness ==
    /\ lastEvent = Event("click", 1, TRUE, 2)
    /\ rangeStartIndex = 2
    /\ selectedIndices = {1, 2}

\* C11: a context-menu event on a row of a selected set of two or more rows
\* leaves the selected set and the anchor as they were; a context-menu event
\* on a row outside the selected set makes that row the anchor and the only
\* selected row.
C11_ContextMenuSelection ==
    [][ ( /\ lastEvent'.type = "contextmenu"
          /\ lastEvent'.row # Null )
        => /\ ( /\ Cardinality(selectedIndices) >= 2
                /\ lastEvent'.row \in selectedIndices )
              => /\ selectedIndices' = selectedIndices
                 /\ rangeStartIndex' = rangeStartIndex
           /\ lastEvent'.row \notin selectedIndices
              => /\ rangeStartIndex' = lastEvent'.row
                 /\ selectedIndices' = {lastEvent'.row}
      ]_vars

\* A context-menu event on row 2 arrived while the rows 1..3 were selected
\* from the anchor 3: the range menu is open on the same selection.
C11_Witness ==
    /\ lastEvent = Event("contextmenu", 2, FALSE, 3)
    /\ rangeContextMenu
    /\ rangeStartIndex = 3
    /\ selectedIndices = {1, 2, 3}

\* C14: a squashCommits message is posted only while two or more rows are
\* selected and they are consecutive.  While the range menu is open the
\* selection is the one it was opened on: two or more rows, and the squash
\* item is displayed exactly when they are consecutive; the cherryPickRange
\* item can be clicked also when they are not.
C14_SquashGated ==
    LET sortedIndices == SortAscending(selectedIndices)
    IN  /\ lastPost.command = "squashCommits"
           => /\ Cardinality(selectedIndices) >= 2
              /\ AreCommitsConsecutive(commits, sortedIndices)
        /\ rangeContextMenu
           => /\ Cardinality(selectedIndices) >= 2
              /\ squashItem <=> AreCommitsConsecutive(commits, sortedIndices)
              /\ ENABLED RangeMenuItem("cherryPickRange")
              /\ ~squashItem => ~ENABLED RangeMenuItem("squashCommits")

\* A squashCommits message was posted for the three selected rows 1..3.
C14_Witness ==
    /\ lastPost.command = "squashCommits"
    /\ selectedIndices = {1, 2, 3}
    /\ lastEvent.type = "rangemenu"

\* The oldest selected commit: the one of the highest selected row.
OldestSelected == commits[CHOOSE r \in selectedIndices : \A q \in selectedIndices : q <= r]

C16_HashesNewestFirst ==
    lastPost.command \in RangeActions =>
        LET hashes == lastPost.hashes
        IN  /\ Len(hashes) = Cardinality(selectedIndices)
            /\ Range(hashes) = {commits[r].hash : r \in selectedIndices}
            /\ \A k, l \in 1..Len(hashes) :
                   k < l => FindIndex(commits, hashes[k]) < FindIndex(commits, hashes[l])

\* A cherryPickRange message was posted for the rows 1..3, selected upwards
\* from the anchor 3: the hashes go from row 1 to row 3.
C16_Witness ==
    /\ lastPost.command = "cherryPickRange"
    /\ rangeStartIndex = 3
    /\ selectedIndices = {1, 2, 3}
    /\ lastPost.hashes = <<commits[1].hash, commits[2].hash, commits[3].hash>>

\* C26: after any events the selected set is empty iff the anchor is unset;
\* otherwise it is an interval of rows of the table and the anchor is its
\* lowest or its highest row.  A shift-click that arrives while nothing is
\* selected acts as a plain click.
C26_SelectionShape ==
    /\ selectedIndices = {} <=> rangeStartIndex = Null
    /\ selectedIndices # {} =>
           \E lo, hi \in TableRows :
               /\ selectedIndices = lo..hi
               /\ lo <= hi
               /\ rangeStartIndex \in {lo, hi}
    /\ (lastEvent.type = "click" /\ lastEvent.row # Null /\ lastEvent.shift /\ lastEvent.prior = 0)
           => /\ selectedIndices = {lastEvent.row}
              /\ rangeStartIndex = lastEvent.row

\* The first event on the page was a shift-click on row 2: row 2 is the
\* anchor and the only selected row.
C26_Witness ==
    /\ lastEvent = Event("click", 2, TRUE, 0)
    /\ rangeStartIndex = 2
    /\ selectedIndices = {2}

\* C27: after any events at most one menu is displayed; while the
\* single-commit menu is displayed the selected set is the one row of
\* selectedCommitHash; while the range menu is displayed two or more rows are
\* selected; and a message of a single-commit action carries the hash of the
\* only selected row.
C27_MenuMatchesSelection ==
    /\ ~(contextMenu /\ rangeContextMenu)
    /\ contextMenu =>
           /\ selectedRow \in TableRows
           /\ selectedIndices = {selectedRow}
           /\ commits[selectedRow].hash = selectedCommitHash
    /\ rangeContextMenu => Cardinality(selectedIndices) >= 2
    /\ lastPost.command \in SingleActions =>
           \E r \in TableRows :
               /\ selectedIndices = {r}
               /\ commits[r].hash = lastPost.commitHash

\* The message of an edited commit message was posted for row 2, the only
\* selected row.
C27_Witness ==
    /\ Len(commits) >= 2
    /\ lastPost.command = "editCommitMessage"
    /\ lastPost.commitHash = commits[2].hash
    /\ selectedIndices = {2}
    /\ lastEvent.type = "enter"

\* ------------------------------------- areCommitsConsecutive, called directly
\* The exported predicate on a commit list and any ascending sequence of its
\* row indices: the lists of the selection and the arbitrary lists.
InitConsecutive ==
    /\ \/ \E n \in 0..MaxRows : ChooseShapes(1, n, <<>>)
       \/ \E n \in 0..MaxAnyCommits : ChooseRows(1, n, FALSE, {0}, <<>>)
    /\ pc = "predicate"
    /\ LanesAtRest
    /\ DrawAtRest
    /\ UIAtRest
    /\ CallAtRest
    /\ HostAtRest

\* areCommitsConsecutive(commits, sortedIndices) on the ascending sequence of
\* the rows of S.
CallAreCommitsConsecutive(S) ==
    /\ pc \in {"predicate", "returned"}
    /\ S \subseteq 1..Len(commits)
    /\ callIndices' = SortAscending(S)
    /\ callResult' = AreCommitsConsecutive(commits, SortAscending(S))
    /\ pc' = "returned"
    /\ UNCHANGED <<commits, laneVars, drawVars, uiVars, hostVars>>

NextConsecutive == \E S \in SUBSET (1..MaxRows) : CallAreCommitsConsecutive(S)

SpecConsecutive == InitConsecutive /\ [][NextConsecutive]_vars

\* C12: areCommitsConsecutive returns true exactly when, for every adjacent
\* pair (newer, older) of the sequence, the newer commit has exactly one parent
\* and that parent is the older commit's hash; so it returns true for the
\* empty and for a one-element sequence.
C12_ConsecutiveIff ==
    pc = "returned" =>
        /\ callResult <=>
               \A k \in 1..(Len(callIndices) - 1) :
                   LET newer == commits[callIndices[k]]
                       older == commits[callIndices[k + 1]]
                   IN  /\ Len(newer.parents) = 1
                       /\ newer.parents[1] = older.hash
        /\ Len(callIndices) <= 1 => callResult

\* The call on rows 1, 2, 3 of a list where the sole parent of row 1 is row 2
\* and the sole parent of row 2 is row 3 returned true.
C12_Witness ==
    /\ pc = "returned"
    /\ callIndices = <<1, 2, 3>>
    /\ commits[1].parents = <<2>>
    /\ commits[2].parents = <<3>>
    /\ callResult

\* C13: for a sequence of two or more rows of which any commit is a merge
\* commit (two or more parents), areCommitsConsecutive returns false.
C13_MergeNeverConsecutive ==
    ( /\ pc = "returned"
      /\ Len(callIndices) >= 2
      /\ \E k \in 1..Len(callIndices) : Len(commits[callIndices[k]].parents) >= 2 )
    => ~callResult

\* ------------------------------------------- the extension host: refreshes
\* updateWebview: getGitLog starts its git log; the read joins the others.
StartRead(rs) == Append(rs, [stage |-> "started", list |-> Undefined])

\* refresh(): updateWebview for the view.  The number of reads of a run is
\* capped at MaxReads.
Refresh ==
    /\ Len(reads) < MaxReads
    /\ reads' = StartRead(reads)

\* Everything of the host but the reads and the html.
actionVars == <<hostPc, hostCommand, commands, scripts, rebasing, abortPending,
                outcome, failedAt>>

\* Everything the host steps leave alone: the webview script's own state.
scriptVars == <<commits, pc, laneVars, drawVars, uiVars, callVars>>

\* resolveWebviewView: the view is made and updateWebview is called.
InitHost ==
    /\ commits = <<>>
    /\ pc = "host"
    /\ LanesAtRest
    /\ DrawAtRest
    /\ UIAtRest
    /\ CallAtRest
    /\ repo = 1
    /\ gitChanged = FALSE
    /\ reads = StartRead(<<>>)
    /\ html = NoHtml
    /\ hostPc = "idle"
    /\ hostCommand = "none"
    /\ commands = <<>>
    /\ scripts = FALSE
    /\ rebasing = FALSE
    /\ abortPending = FALSE
    /\ outcome = NoOutcome
    /\ failedAt = Undefined
    /\ counts = [refreshes |-> 0, actions |-> 0, changes |-> 0]

\* A refresh message of the webview, or filterByBranch.
RefreshRequested ==
    /\ counts.refreshes < MaxRefreshRequests
    /\ counts' = [counts EXCEPT !.refreshes = @ + 1]
    /\ Refresh
    /\ UNCHANGED <<scriptVars, repo, gitChanged, html, actionVars>>

\* Somebody else changes the repository (a commit from a terminal).
ExternalChange ==
    /\ counts.changes < MaxChanges
    /\ counts' = [counts EXCEPT !.changes = @ + 1]
    /\ repo' = repo + 1
    /\ gitChanged' = TRUE
    /\ UNCHANGED <<scriptVars, reads, html, actionVars>>

\* The watcher of .git fires: onDidChange/onDidCreate/onDidDelete -> refresh().
WatcherEvent ==
    /\ gitChanged
    /\ gitChanged' = FALSE
    /\ Refresh
    /\ UNCHANGED <<scriptVars, repo, html, actionVars, counts>>

\* The git log process of read id reads the repository; on an error
\* getGitLog resolves the empty list.
GitLogRuns(id, ok) ==
    /\ id \in 1..Len(reads)
    /\ reads[id].stage = "started"
    /\ reads' = [reads EXCEPT ![id] = [stage |-> "read",
                                        list |-> IF ok THEN repo ELSE EmptyList]]
    /\ UNCHANGED <<scriptVars, repo, gitChanged, html, actionVars, counts>>

\* The callback of read id resolves the promise and updateWebview sets
\* webview.html from the list.
GitLogResolves(id) ==
    /\ id \in 1..Len(reads)
    /\ reads[id].stage = "read"
    /\ reads' = [reads EXCEPT ![id].stage = "done"]
    /\ html' = [list |-> reads[id].list, by |-> id]
    /\ UNCHANGED <<scriptVars, repo, gitChanged, actionVars, counts>>

\* ---------------------------------- the extension host: mutating actions
\* The commands that go straight to one git command.
DirectCommands == {"editCommitMessage", "cherryPick", "cherryPickRange"}

\* The commands that ask the user to confirm first.
ConfirmedCommands == {"revertCommit", "resetToCommit"}

HostCommands == DirectCommands \cup ConfirmedCommands \cup {"squashCommits"}

\* The git command a host command runs.
GitCommandOf(command) ==
    CASE command = "editCommitMessage" -> "commit --amend"
      [] command = "cherryPick" -> "cherry-pick"
      [] command = "cherryPickRange" -> "cherry-pick"
      [] command = "revertCommit" -> "revert"
      [] command = "resetToCommit" -> "reset"
      [] OTHER -> "none"

\* The callback of a git command that succeeded: the information message,
\* then this.refresh().
Succeeded ==
    /\ outcome' = [outcome EXCEPT !.result = "succeeded", !.info = TRUE, !.refresh = TRUE]
    /\ Refresh
    /\ UNCHANGED failedAt

\* The callback of a git command that failed: showErrorMessage, return.
Failed ==
    /\ outcome' = [outcome EXCEPT !.result = "failed", !.error = TRUE]
    /\ failedAt' = Len(reads)
    /\ UNCHANGED reads

\* onDidReceiveMessage with a mutating command.  given: the message has the
\* value the first guard of the method asks for (newMessage, parentHash).
\* The host serves one action at a time here, after the abort of the one
\* before has finished.
HostReceives(command, given) ==
    /\ hostPc = "idle"
    /\ ~abortPending
    /\ command \in HostCommands
    /\ counts.actions < MaxActions
    /\ counts' = [counts EXCEPT !.actions = @ + 1]
    /\ hostCommand' = command
    /\ IF command \in ConfirmedCommands
       THEN /\ hostPc' = "confirm"
            /\ commands' = <<>>
            /\ outcome' = NoOutcome
       ELSE IF command = "squashCommits"
       THEN /\ commands' = <<>>
            /\ IF given
               THEN /\ hostPc' = "prompt"
                    /\ outcome' = NoOutcome
               ELSE /\ hostPc' = "idle"
                    /\ outcome' = [NoOutcome EXCEPT !.result = "returned", !.error = TRUE]
       ELSE IF command = "editCommitMessage" /\ ~given
       THEN /\ hostPc' = "idle"
            /\ commands' = <<>>
            /\ outcome' = [NoOutcome EXCEPT !.result = "returned"]
       ELSE /\ hostPc' = "exec"
            /\ commands' = <<GitCommandOf(command)>>
            /\ outcome' = NoOutcome
    /\ UNCHANGED <<scriptVars, repo, gitChanged, reads, html, scripts, rebasing,
                   abortPending, failedAt>>

\* The answer to showWarningMessage / showQuickPick of revert and reset.
Confirmed(yes) ==
    /\ hostPc = "confirm"
    /\ IF yes
       THEN /\ hostPc' = "exec"
            /\ commands' = <<GitCommandOf(hostCommand)>>
            /\ UNCHANGED outcome
       ELSE /\ hostPc' = "idle"
            /\ outcome' = [outcome EXCEPT !.result = "cancelled"]
            /\ UNCHANGED commands
    /\ UNCHANGED <<scriptVars, repo, gitChanged, reads, html, hostCommand, scripts,
                   rebasing, abortPending, failedAt, counts>>

\* The callback of the git command of amend, cherry-pick, revert, reset and
\* cherry-pick range.  touched: a failing command has changed .git.
ExecDone(ok, touched) ==
    /\ hostPc = "exec"
    /\ hostPc' = "idle"
    /\ IF ok
       THEN /\ repo' = repo + 1
            /\ gitChanged' = TRUE
            /\ Succeeded
       ELSE /\ gitChanged' = (gitChanged \/ touched)
            /\ Failed
            /\ UNCHANGED repo
    /\ UNCHANGED <<scriptVars, html, hostCommand, commands, scripts, rebasing,
                   abortPending, counts>>

\* squashCommits, the answer to showInputBox: no message, return; else
\* git rev-parse HEAD is started.
Prompted(given) ==
    /\ hostPc = "prompt"
    /\ IF given
       THEN /\ hostPc' = "revparse"
            /\ commands' = Append(commands, "rev-parse")
            /\ UNCHANGED outcome
       ELSE /\ hostPc' = "idle"
            /\ outcome' = [outcome EXCEPT !.result = "cancelled"]
            /\ UNCHANGED commands
    /\ UNCHANGED <<scriptVars, repo, gitChanged, reads, html, hostCommand, scripts,
                   rebasing, abortPending, failedAt, counts>>

\* squashCommits, hashes[0] === headHash: git reset --soft on the one side;
\* on the other the two editor scripts are written and git rebase -i starts.
\* A failed rev-parse gives '' and takes the rebase side.
RevParseDone(isHead) ==
    /\ hostPc = "revparse"
    /\ IF isHead
       THEN /\ hostPc' = "reset"
            /\ commands' = Append(commands, "reset --soft")
            /\ UNCHANGED scripts
       ELSE /\ hostPc' = "rebase"
            /\ scripts' = TRUE
            /\ commands' = Append(commands, "rebase -i")
    /\ UNCHANGED <<scriptVars, repo, gitChanged, reads, html, hostCommand, rebasing,
                   abortPending, outcome, failedAt, counts>>

\* squashCommits, the callback of git reset --soft.
ResetDone(ok) ==
    /\ hostPc = "reset"
    /\ IF ok
       THEN /\ hostPc' = "commit"
            /\ commands' = Append(commands, "commit")
            /\ repo' = repo + 1
            /\ gitChanged' = TRUE
            /\ UNCHANGED <<outcome, failedAt>>
       ELSE /\ hostPc' = "idle"
            /\ Failed
            /\ UNCHANGED <<commands, repo, gitChanged>>
    /\ UNCHANGED <<scriptVars, reads, html, hostCommand, scripts, rebasing,
                   abortPending, counts>>

\* squashCommits, the callback of git commit.
CommitDone(ok) ==
    /\ hostPc = "commit"
    /\ hostPc' = "idle"
    /\ IF ok
       THEN /\ repo' = repo + 1
            /\ gitChanged' = TRUE
            /\ Succeeded
       ELSE /\ Failed
            /\ UNCHANGED <<repo, gitChanged>>
    /\ UNCHANGED <<scriptVars, html, hostCommand, commands, scripts, rebasing,
                   abortPending, counts>>

\* A rebase callback that removes the scripts only after a success.
RebaseCallbackKeepsScripts(ok, stopped) ==
    /\ scripts' = ~ok
    /\ IF ok
       THEN /\ repo' = repo + 1
            /\ gitChanged' = TRUE
            /\ Succeeded
            /\ UNCHANGED <<commands, abortPending, rebasing>>
       ELSE /\ commands' = Append(commands, "rebase --abort")
            /\ abortPending' = TRUE
            /\ rebasing' = stopped
            /\ gitChanged' = (gitChanged \/ stopped)
            /\ Failed
            /\ UNCHANGED repo

\* The callback of git rebase -i: both scripts are unlinked; on an error
\* git rebase --abort is started, the error is shown, return.  stopped: the
\* failed rebase is left in progress (a conflict).
RebaseCallback(ok, stopped) ==
    /\ scripts' = FALSE
    /\ IF ok
       THEN /\ repo' = repo + 1
            /\ gitChanged' = TRUE
            /\ Succeeded
            /\ UNCHANGED <<commands, abortPending, rebasing>>
       ELSE /\ commands' = Append(commands, "rebase --abort")
            /\ abortPending' = TRUE
            /\ rebasing' = stopped
            /\ gitChanged' = (gitChanged \/ stopped)
            /\ Failed
            /\ UNCHANGED repo

\* squashCommits, git rebase -i finishes.
RebaseDone(ok, stopped) ==
    /\ hostPc = "rebase"
    /\ hostPc' = "idle"
    /\ RebaseCallback(ok, stopped)
    /\ UNCHANGED <<scriptVars, html, hostCommand, counts>>

\* git rebase --abort finishes: a rebase in progress is undone; its
\* callback does nothing.
AbortDone ==
    /\ abortPending
    /\ abortPending' = FALSE
    /\ rebasing' = FALSE
    /\ gitChanged' = (gitChanged \/ rebasing)
    /\ UNCHANGED <<scriptVars, repo, reads, html, hostPc, hostCommand, commands,
                   scripts, outcome, failedAt, counts>>

NextHost ==
    \/ RefreshRequested
    \/ ExternalChange
    \/ WatcherEvent
    \/ \E id \in 1..Len(reads), ok \in BOOLEAN : GitLogRuns(id, ok)
    \/ \E id \in 1..Len(reads) : GitLogResolves(id)
    \/ \E command \in HostCommands, given \in BOOLEAN : HostReceives(command, given)
    \/ \E yes \in BOOLEAN : Confirmed(yes)
    \/ \E ok \in BOOLEAN, touched \in BOOLEAN : ExecDone(ok, touched)
    \/ \E given \in BOOLEAN : Prompted(given)
    \/ \E isHead \in BOOLEAN : RevParseDone(isHead)
    \/ \E ok \in BOOLEAN : ResetDone(ok)
    \/ \E ok \in BOOLEAN : CommitDone(ok)
    \/ \E ok \in BOOLEAN, stopped \in BOOLEAN : RebaseDone(ok, stopped)
    \/ AbortDone

SpecHost == InitHost /\ [][NextHost]_vars

\* ------------------------------------------ the extension host: claims
\* Every read that was started has set the html.
AllReadsDone == \A id \in 1..Len(reads) : reads[id].stage = "done"

\* Nothing is pending in the host: no action, no abort, no watcher event,
\* no read.
Quiescent == hostPc = "idle" /\ ~abortPending /\ ~gitChanged /\ AllReadsDone

InCommands(c) == \E k \in 1..Len(commands) : commands[k] = c

\* C24: after a mutating action has failed and the host has come to rest,
\* the error message has been shown and the html comes from a read that was
\* started after the failure.
C24_FailureRefreshed ==
    (pc = "host" /\ failedAt # Undefined /\ Quiescent)
        => (outcome.error /\ html.by > failedAt)

\* C28: a squash on the rebase path has no editor script left once
\* git rebase -i has finished, whatever its outcome; after a failure
\* git rebase --abort was issued, the error was shown, neither the success
\* message nor refresh happened, and no rebase is in progress once the abort
\* has finished; a squash that returned at a guard ran no git command.
C28_SquashRebasePath ==
    (pc = "host" /\ hostCommand = "squashCommits") =>
        /\ scripts => hostPc = "rebase"
        /\ (hostPc = "idle" /\ outcome.result \in {"returned", "cancelled"})
               => commands = <<>>
        /\ (hostPc = "idle" /\ outcome.result = "failed" /\ InCommands("rebase -i"))
               => /\ InCommands("rebase --abort")
                  /\ outcome.error
                  /\ ~outcome.info
                  /\ ~outcome.refresh
                  /\ (~abortPending => ~rebasing)

C28_Witness ==
    /\ pc = "host"
    /\ hostCommand = "squashCommits"
    /\ hostPc = "idle"
    /\ outcome.result = "failed"
    /\ commands = <<"rev-parse", "rebase -i", "rebase --abort">>
    /\ ~abortPending
    /\ ~rebasing
    /\ ~scripts
    /\ outcome.error

\* C29: once every read that was started has completed, the html shows the
\* list of the read that was started last.
C29_LastStartedShown ==
    (pc = "host" /\ AllReadsDone /\ Len(reads) >= 2)
        => html.list = reads[Len(reads)].list

====
